---------------------------- MODULE Spec2Model ----------------------------
(***************************************************************************)
(* A model of src/app.py: the G-code telemetry extraction (extrusion-axis  *)
(* integrator, mass estimator, time estimator) and the /estimate handler.  *)
(*                                                                         *)
(* Text is modelled at the level the regular expressions of the source     *)
(* classify it: a G-code document is a sequence of lines, a line is a      *)
(* record naming the command or summary phrase it carries together with    *)
(* the numeric arguments the patterns capture.  Floats are fixed point:    *)
(* lengths are whole millimetres, masses are micrograms.                   *)
(***************************************************************************)
EXTENDS Integers, Sequences, FiniteSets, TLC

VARIABLES
    pc,         \* control position of the operation being run
    gcode,      \* the G-code document (sequence of lines) being processed
    material,   \* material name handed to parse_filament_g
    absolute,   \* integrator local: extrusion mode (line 48)
    e_pos,      \* integrator local: current E position (line 49)
    total,      \* integrator local: forward extrusion so far (line 50)
    i,          \* integrator local: index of the next line of the for loop
    result,     \* return value of the function that was run
    payload,    \* the request body handed to estimate
    profiles,   \* profile files present under profiles/
    effects,    \* the I/O steps estimate performed, in order
    response    \* what estimate returned or raised

vars == <<pc, gcode, material, absolute, e_pos, total, i, result,
          payload, profiles, effects, response>>

Max(a, b) == IF a >= b THEN a ELSE b

Min(a, b) == IF a <= b THEN a ELSE b

\* The least and the greatest element of a non-empty set of numbers.
First(S) == CHOOSE x \in S : \A y \in S : x <= y

Last(S) == CHOOSE x \in S : \A y \in S : y <= x

\* The sequences over S of length at most n.
SeqsUpTo(S, n) == UNION {[1..k -> S] : k \in 0..n}

\* Value of a variable that plays no part in the specification at hand.
Unused == "unused"

(***************************************************************************)
(* Lines.  cmd is what the stripped line starts with ("M82", "M83", "G92", *)
(* "G0", "G1"), or the summary phrase a raw line carries ("gram", "length",*)
(* "time"), or "" for a line that is blank once its comment is removed.    *)
(* hasE/e: whether e_re (line 53) finds an E value in the line, and it.    *)
(* num/unit/expr: what the summary patterns capture.                       *)
(***************************************************************************)
Cmd(c) ==
    [cmd |-> c, hasE |-> FALSE, e |-> 0, num |-> 0, unit |-> "", expr |-> <<>>]

CmdE(c, v) == [Cmd(c) EXCEPT !.hasE = TRUE, !.e = v]

Blank == Cmd("")

\* A line one of gram_patterns (lines 102-106) matches; num is the captured
\* number, in micrograms.
GramLine(ug) == [Cmd("gram") EXCEPT !.num = ug, !.unit = "g"]

\* A line one of length_patterns (lines 115-119) matches; num is the captured
\* number in the pattern's unit, "mm" or "m".
LengthLine(n, u) == [Cmd("length") EXCEPT !.num = n, !.unit = u]

\* A token of a duration expression: digits followed by a unit letter.
Tok(n, u) == [n |-> n, u |-> u]

\* A line carrying "estimated printing time ... = <expr>"; expr is a
\* non-empty sequence of tokens.
TimeLine(expr) == [Cmd("time") EXCEPT !.expr = expr]

\* lines 57-59: a summary line is a comment, or at least carries no command:
\* the integrator sees nothing in it.
Stripped(line) ==
    IF line.cmd \in {"gram", "length", "time"} THEN Blank ELSE line

(***************************************************************************)
(* _extrusion_length_mm_from_e_axis, one iteration of the loop at a time.  *)
(* The integrator state is [absolute, e_pos, total].                       *)
(***************************************************************************)
EInit == [absolute |-> TRUE, e_pos |-> 0, total |-> 0]

\* lines 70-74, with the reset counted as a move
G92AsMove(st, line) ==
    IF line.hasE
    THEN [st EXCEPT !.e_pos = line.e,
                    !.total = st.total + Max(0, line.e - st.e_pos)]
    ELSE st

\* lines 70-74
G92Reset(st, line) ==
    IF line.hasE THEN [st EXCEPT !.e_pos = line.e] ELSE st

\* lines 86-93, with retractions subtracted instead of dropped
NetMove(st, e_val) ==
    IF st.absolute
    THEN [st EXCEPT !.e_pos = e_val, !.total = st.total + (e_val - st.e_pos)]
    ELSE [st EXCEPT !.total = st.total + e_val]

\* lines 86-93
Move(st, e_val) ==
    IF st.absolute
    THEN LET delta == e_val - st.e_pos
         IN  [st EXCEPT !.e_pos = e_val,
                        !.total = IF delta > 0 THEN st.total + delta ELSE st.total]
    ELSE [st EXCEPT !.total = IF e_val > 0 THEN st.total + e_val ELSE st.total]

\* lines 55-93: the body of the for loop on one raw line
EStep(st, raw) ==
    LET line == Stripped(raw) IN
    IF line.cmd = "" THEN st
    ELSE IF line.cmd = "M82" THEN [st EXCEPT !.absolute = TRUE]
    ELSE IF line.cmd = "M83" THEN [st EXCEPT !.absolute = FALSE]
    ELSE IF line.cmd = "G92" THEN G92Reset(st, line)
    ELSE IF ~(line.cmd \in {"G0", "G1"}) THEN st
    ELSE IF ~line.hasE THEN st
    ELSE Move(st, line.e)

RECURSIVE ERun(_, _, _)
ERun(st, doc, k) ==
    IF k > Len(doc) THEN st ELSE ERun(EStep(st, doc[k]), doc, k + 1)

\* lines 37-95
extrusion_length_mm_from_e_axis(doc) == Max(0, ERun(EInit, doc, 1).total)

(***************************************************************************)
(* Material names and URLs are sequences of characters, so that upper(),   *)
(* lower() and split() are conversions and not the identity.  A file       *)
(* extension counts as one character.                                      *)
(***************************************************************************)
LowerChars == <<"a", "b", "e", "g", "l", "p", "s", "t", ".stl", ".3mf">>
UpperChars == <<"A", "B", "E", "G", "L", "P", "S", "T", ".STL", ".3MF">>

UpperChar(c) ==
    IF \E k \in 1..Len(LowerChars) : LowerChars[k] = c
    THEN UpperChars[CHOOSE k \in 1..Len(LowerChars) : LowerChars[k] = c]
    ELSE c

LowerChar(c) ==
    IF \E k \in 1..Len(UpperChars) : UpperChars[k] = c
    THEN LowerChars[CHOOSE k \in 1..Len(UpperChars) : UpperChars[k] = c]
    ELSE c

\* str.upper(), str.lower()
Upper(str) == [k \in 1..Len(str) |-> UpperChar(str[k])]
Lower(str) == [k \in 1..Len(str) |-> LowerChar(str[k])]

PLA  == <<"P", "L", "A">>
PETG == <<"P", "E", "T", "G">>

(***************************************************************************)
(* _calc_grams_from_length_mm in fixed point.  E2, E3, E4 name the number  *)
(* of decimals a quantity carries; the result is in micrograms.            *)
(***************************************************************************)
\* math.pi, 4 decimals
PiE4 == 31416

\* filament_diameter_mm = 1.75, 2 decimals
FilamentDiameterE2 == 175

\* density of PLA and of PETG in g/cm3, 2 decimals
DensityPLA_E2 == 124
DensityPETG_E2 == 127

\* lines 25-28
Density(mat) ==
    IF Upper(mat) = PETG THEN DensityPETG_E2 ELSE DensityPLA_E2

\* lines 23-34
calc_grams_from_length_mm(length_mm, mat) ==
    LET radius_E3  == (FilamentDiameterE2 * 10) \div 2
        area_E4    == (PiE4 * ((radius_E3 * radius_E3) \div 100)) \div 10000
        volume_mm3 == area_E4 * length_mm
        volume_cm3 == volume_mm3 \div 1000
    IN  volume_cm3 * Density(mat)

(***************************************************************************)
(* parse_filament_g                                                        *)
(***************************************************************************)
\* The for loops of lines 107-111 and 120-128: the index of the first line
\* at or after k that a pattern of the given tier matches, 0 if none does.
RECURSIVE FirstMatch(_, _, _)
FirstMatch(doc, tier, k) ==
    IF k > Len(doc) THEN 0
    ELSE IF doc[k].cmd = tier THEN k
    ELSE FirstMatch(doc, tier, k + 1)

\* lines 124-125
LengthMm(line) == IF line.unit = "m" THEN line.num * 1000 ELSE line.num

\* lines 100-138 with the length summary tried before the gram summary
parse_filament_g_length_first(doc, mat) ==
    LET gi == FirstMatch(doc, "gram", 1)
        li == FirstMatch(doc, "length", 1)
        e_length_mm == extrusion_length_mm_from_e_axis(doc)
    IN  IF li # 0 THEN calc_grams_from_length_mm(LengthMm(doc[li]), mat)
        ELSE IF gi # 0 THEN doc[gi].num
        ELSE IF e_length_mm <= 0 THEN 0
        ELSE calc_grams_from_length_mm(e_length_mm, mat)

\* lines 100-138
parse_filament_g(doc, mat) ==
    LET gi == FirstMatch(doc, "gram", 1)
        li == FirstMatch(doc, "length", 1)
        e_length_mm == extrusion_length_mm_from_e_axis(doc)
    IN  IF gi # 0 THEN doc[gi].num
        ELSE IF li # 0 THEN calc_grams_from_length_mm(LengthMm(doc[li]), mat)
        ELSE IF e_length_mm <= 0 THEN 0
        ELSE calc_grams_from_length_mm(e_length_mm, mat)

(***************************************************************************)
(* parse_time_seconds                                                      *)
(***************************************************************************)
\* The characters the group ([0-9hms\s]+) of line 142 accepts.
GroupUnits == {"h", "m", "s"}

\* line 142: the group stops at the first character outside its class, that
\* is at the unit letter of the first token whose unit is none of h, m, s
\* (the digits of that token are captured, and form no component).
Captured(expr) ==
    LET out == {k \in 1..Len(expr) : expr[k].u \notin GroupUnits}
    IN  IF out = {} THEN expr
        ELSE SubSeq(expr, 1, (CHOOSE k \in out : \A j \in out : k <= j) - 1)

\* lines 146-148: re.search(r"(\d+)\s*<u>", s), 0 when it finds nothing
RECURSIVE Component(_, _, _)
Component(s, u, k) ==
    IF k > Len(s) THEN 0
    ELSE IF s[k].u = u THEN s[k].n
    ELSE Component(s, u, k + 1)

\* line 149 with the seconds left out
HoursMinutesOnly(h, m_, se) == h * 3600 + m_ * 60

\* line 149
ToSeconds(h, m_, se) == h * 3600 + m_ * 60 + se

\* lines 141-149
parse_time_seconds(txt) ==
    LET mi == FirstMatch(txt, "time", 1) IN
    IF mi = 0 THEN -1
    ELSE LET s == Captured(txt[mi].expr)
         IN  ToSeconds(Component(s, "h", 1), Component(s, "m", 1),
                       Component(s, "s", 1))


(***************************************************************************)
(* SpecE: the integrator run on one document, one loop iteration per step. *)
(***************************************************************************)
\* Longest document handed to the integrator.
MaxLines == 4

\* E values of move lines and of G92 lines.
MoveValues == {-1, 2, 3, 5, 10, 12}
ResetValues == {0, 5}

ELines ==
    {Blank, Cmd("G28"), Cmd("M82"), Cmd("M83"), Cmd("G92"), Cmd("G0")}
    \cup {CmdE("G92", v) : v \in ResetValues}
    \cup {CmdE("G1", v) : v \in MoveValues}

EState == [absolute |-> absolute, e_pos |-> e_pos, total |-> total]

ELine == Stripped(gcode[i])

\* The loop body ran on line i: the locals are those EStep computes.
EAdvance ==
    /\ absolute' = EStep(EState, gcode[i]).absolute
    /\ e_pos' = EStep(EState, gcode[i]).e_pos
    /\ total' = EStep(EState, gcode[i]).total
    /\ i' = i + 1
    /\ UNCHANGED <<pc, gcode, material, result, payload, profiles, effects, response>>

ELoop == pc = "loop" /\ i <= Len(gcode)

\* lines 57-59
ESkipBlank == ELoop /\ ELine.cmd = "" /\ EAdvance

\* lines 62-64
EM82 == ELoop /\ ELine.cmd = "M82" /\ EAdvance

\* lines 65-67
EM83 == ELoop /\ ELine.cmd = "M83" /\ EAdvance

\* lines 70-74
EG92 == ELoop /\ ELine.cmd = "G92" /\ EAdvance

\* lines 77-78
ESkipOther ==
    ELoop /\ ELine.cmd \notin {"", "M82", "M83", "G92", "G0", "G1"} /\ EAdvance

\* lines 80-82
ESkipNoE == ELoop /\ ELine.cmd \in {"G0", "G1"} /\ ~ELine.hasE /\ EAdvance

\* lines 84-93
EMove == ELoop /\ ELine.cmd \in {"G0", "G1"} /\ ELine.hasE /\ EAdvance

\* line 95
EReturn ==
    /\ pc = "loop" /\ i > Len(gcode)
    /\ pc' = "returned"
    /\ result' = Max(0, total)
    /\ UNCHANGED <<gcode, material, absolute, e_pos, total, i,
                   payload, profiles, effects, response>>

InitE ==
    /\ pc = "loop"
    /\ gcode \in SeqsUpTo(ELines, MaxLines)
    /\ absolute = EInit.absolute /\ e_pos = EInit.e_pos /\ total = EInit.total
    /\ i = 1
    /\ result = Unused /\ material = Unused /\ payload = Unused
    /\ profiles = Unused /\ effects = Unused /\ response = Unused

NextE ==
    \/ ESkipBlank \/ EM82 \/ EM83 \/ EG92 \/ ESkipOther \/ ESkipNoE \/ EMove
    \/ EReturn

SpecE == InitE /\ [][NextE]_vars

(***************************************************************************)
(* Claims about the integrator (checked under SpecE).                      *)
(***************************************************************************)
RECURSIVE SumOver(_, _)
SumOver(f, S) ==
    IF S = {} THEN 0
    ELSE LET x == CHOOSE y \in S : TRUE IN f[x] + SumOver(f, S \ {x})

IsMoveLine(l) == l.cmd \in {"G0", "G1"} /\ l.hasE

\* The mode in force when line k is read: that of the last mode line before
\* it, Absolute when there is none.
ModeAbsoluteAt(doc, k) ==
    LET S == {j \in 1..(k - 1) : doc[j].cmd \in {"M82", "M83"}}
    IN  S = {} \/ doc[Last(S)].cmd = "M82"

\* The current position when line k is read: the value of the last G92 E
\* line or absolute-mode move before it, 0 when there is none.
PositionAt(doc, k) ==
    LET S == {j \in 1..(k - 1) :
                \/ doc[j].cmd = "G92" /\ doc[j].hasE
                \/ IsMoveLine(doc[j]) /\ ModeAbsoluteAt(doc, j)}
    IN  IF S = {} THEN 0 ELSE doc[Last(S)].e

\* The forward contribution of line k.
Contribution(doc, k) ==
    IF ~IsMoveLine(doc[k]) THEN 0
    ELSE IF ModeAbsoluteAt(doc, k) THEN Max(0, doc[k].e - PositionAt(doc, k))
    ELSE Max(0, doc[k].e)

ForwardSum(doc, n) == SumOver([k \in 1..n |-> Contribution(doc, k)], 1..n)

AbsExample == <<CmdE("G1", 10), CmdE("G1", 5), CmdE("G1", 12)>>

RelExample == <<Cmd("M83"), CmdE("G1", 2), CmdE("G1", -1), CmdE("G1", 3)>>

\* C3: from mode Absolute, position 0, total 0, the integrator's locals after
\* the first i-1 lines are the mode, the position and the sum of the forward
\* contributions the claim describes (an absolute move contributes
\* max(0, value - position) and sets the position, a relative move
\* contributes max(0, value) and leaves the position), and the value
\* returned is the sum over the whole document: retractions are excluded,
\* never subtracted; G1 E10, G1 E5, G1 E12 gives 17 and M83, G1 E2, G1 E-1,
\* G1 E3 gives 5.
C3_ForwardSum ==
    /\ pc \in {"loop", "returned"} =>
        /\ total = ForwardSum(gcode, i - 1)
        /\ e_pos = PositionAt(gcode, i)
        /\ absolute = ModeAbsoluteAt(gcode, i)
    /\ pc = "returned" =>
        /\ result = ForwardSum(gcode, Len(gcode))
        /\ gcode = AbsExample => result = 17
        /\ gcode = RelExample => result = 5

C3_Witness ==
    /\ pc = "returned"
    /\ gcode = AbsExample
    /\ result = 17

\* C10: a G92 line with an E value sets the position to it and leaves total
\* and mode alone, a G92 line without one changes nothing, M82 and M83
\* change only the mode; and G92 E0 followed by G1 E5 in absolute mode adds
\* 5 whatever the position before the reset.
C10_ResetFrame ==
    /\ [][EG92 => /\ total' = total
                  /\ absolute' = absolute
                  /\ e_pos' = IF gcode[i].hasE THEN gcode[i].e ELSE e_pos]_vars
    /\ [][EM82 => absolute' /\ total' = total /\ e_pos' = e_pos]_vars
    /\ [][EM83 => ~absolute' /\ total' = total /\ e_pos' = e_pos]_vars
    /\ [](\A k \in 1..(Len(gcode) - 1) :
            (/\ pc = "returned"
             /\ gcode[k] = CmdE("G92", 0)
             /\ gcode[k + 1] = CmdE("G1", 5)
             /\ ModeAbsoluteAt(gcode, k + 1))
            => extrusion_length_mm_from_e_axis(SubSeq(gcode, 1, k + 1))
                 = extrusion_length_mm_from_e_axis(SubSeq(gcode, 1, k - 1)) + 5)

\* A reset to 0 after the position reached 12, then G1 E5: 12 + 5.
C10_Witness ==
    /\ pc = "returned"
    /\ gcode = <<CmdE("G1", 12), CmdE("G92", 0), CmdE("G1", 5)>>
    /\ result = 17

(***************************************************************************)
(* SpecT: parse_time_seconds applied to one text.                          *)
(***************************************************************************)
\* Most tokens in a duration expression.
MaxTokens == 3

TimeTokens ==
    {Tok(1, "h"), Tok(2, "h"), Tok(2, "m"), Tok(3, "s"), Tok(45, "s"), Tok(1, "d")}

Exprs == UNION {[1..k -> TimeTokens] : k \in 1..MaxTokens}

\* A summary line, alone or after a move line, alone or before a second
\* summary line; and texts without any.
TimeTexts ==
    {<<>>, <<Blank>>, <<CmdE("G1", 5), Cmd("M83")>>}
    \cup {pre \o <<TimeLine(x)>> \o post :
            x \in Exprs,
            pre \in {<<>>, <<CmdE("G1", 5)>>},
            post \in {<<>>, <<TimeLine(<<Tok(2, "h")>>)>>}}

InitT ==
    /\ pc = "call"
    /\ gcode \in TimeTexts
    /\ result = -1
    /\ material = Unused /\ absolute = Unused /\ e_pos = Unused
    /\ total = Unused /\ i = Unused /\ payload = Unused
    /\ profiles = Unused /\ effects = Unused /\ response = Unused

\* lines 141-149
CallParseTime ==
    /\ pc = "call"
    /\ pc' = "returned"
    /\ result' = parse_time_seconds(gcode)
    /\ UNCHANGED <<gcode, material, absolute, e_pos, total, i,
                   payload, profiles, effects, response>>

SpecT == InitT /\ [][CallParseTime]_vars

\* The duration expression the summary of the text carries.
SummaryExpr(txt) ==
    txt[CHOOSE k \in 1..Len(txt) :
            /\ txt[k].cmd = "time"
            /\ \A j \in 1..(k - 1) : txt[j].cmd # "time"].expr

HasSummary(txt) == \E k \in 1..Len(txt) : txt[k].cmd = "time"

\* An expression made of an hour, a minute and a second component, each at
\* most once, in any order.
IsHmsSubset(x) ==
    /\ \A k \in 1..Len(x) : x[k].u \in {"h", "m", "s"}
    /\ \A j, k \in 1..Len(x) : j # k => x[j].u # x[k].u

UnitSeconds(u) == IF u = "h" THEN 3600 ELSE IF u = "m" THEN 60 ELSE 1

ExprSeconds(x) ==
    SumOver([k \in 1..Len(x) |-> x[k].n * UnitSeconds(x[k].u)], 1..Len(x))

\* C6: for a duration expression made of any subset of an hour, a minute and
\* a second component, parse_time_seconds returns hours*3600 + minutes*60 +
\* seconds, an absent component counting 0: "1h 2m 3s" gives 3723, "45s"
\* gives 45, "2h" gives 7200.
C6_ExactSeconds ==
    (pc = "returned" /\ HasSummary(gcode) /\ IsHmsSubset(SummaryExpr(gcode))) =>
        /\ result = ExprSeconds(SummaryExpr(gcode))
        /\ SummaryExpr(gcode) = <<Tok(1, "h"), Tok(2, "m"), Tok(3, "s")>>
             => result = 3723
        /\ SummaryExpr(gcode) = <<Tok(45, "s")>> => result = 45
        /\ SummaryExpr(gcode) = <<Tok(2, "h")>> => result = 7200

C6_Witness ==
    /\ pc = "returned"
    /\ gcode = <<TimeLine(<<Tok(1, "h"), Tok(2, "m"), Tok(3, "s")>>)>>
    /\ result = 3723

(***************************************************************************)
(* SpecG: parse_filament_g applied to one document and material name.      *)
(***************************************************************************)
\* Longest document handed to parse_filament_g.
MaxMassLines == 3

Materials == {PLA, PETG, <<"p", "e", "t", "g">>, <<"A", "B", "S">>}

MassLines ==
    {GramLine(0), GramLine(12340000), LengthLine(1000, "mm"), LengthLine(2, "m"),
     CmdE("G1", 10), CmdE("G1", 5), Cmd("M83"), Blank}

InitG ==
    /\ pc = "call"
    /\ gcode \in SeqsUpTo(MassLines, MaxMassLines)
    /\ material \in Materials
    /\ result = -1
    /\ absolute = Unused /\ e_pos = Unused /\ total = Unused /\ i = Unused
    /\ payload = Unused /\ profiles = Unused /\ effects = Unused
    /\ response = Unused

\* lines 100-138
CallParseFilament ==
    /\ pc = "call"
    /\ pc' = "returned"
    /\ result' = parse_filament_g(gcode, material)
    /\ UNCHANGED <<gcode, material, absolute, e_pos, total, i,
                   payload, profiles, effects, response>>

SpecG == InitG /\ [][CallParseFilament]_vars

LinesOf(doc, tier) == {k \in 1..Len(doc) : doc[k].cmd = tier}

\* C2: the mass estimator is strictly tiered.  If any line reports grams the
\* result is the value of the first such line, whatever length lines and
\* moves the document holds and wherever they stand; the length summary is
\* used only when no line reports grams; the integrator only when no line
\* reports grams or length.
C2_StrictTiers ==
    pc = "returned" =>
        LET G == LinesOf(gcode, "gram")
            L == LinesOf(gcode, "length")
        IN  /\ G # {} => result = gcode[First(G)].num
            /\ (G = {} /\ L # {}) =>
                 result = calc_grams_from_length_mm(
                              IF gcode[First(L)].unit = "m"
                              THEN 1000 * gcode[First(L)].num
                              ELSE gcode[First(L)].num, material)
            /\ (G = {} /\ L = {}) =>
                 result = IF extrusion_length_mm_from_e_axis(gcode) > 0
                          THEN calc_grams_from_length_mm(
                                   extrusion_length_mm_from_e_axis(gcode), material)
                          ELSE 0

\* A length line and a move stand before the gram line: the gram value wins.
C2_Witness ==
    /\ pc = "returned"
    /\ gcode = <<LengthLine(1000, "mm"), CmdE("G1", 10), GramLine(12340000)>>
    /\ result = 12340000

(***************************************************************************)
(* estimate: the /estimate handler, lines 191-239.                         *)
(***************************************************************************)
\* str(req.file_url).split("?")[0]
BeforeQuery(url) ==
    LET q == {k \in 1..Len(url) : url[k] = "?"}
    IN  IF q = {} THEN url ELSE SubSeq(url, 1, First(q) - 1)

\* s.split("/")[-1]
LastSegment(str) ==
    LET sl == {k \in 1..Len(str) : str[k] = "/"}
    IN  IF sl = {} THEN str ELSE SubSeq(str, Last(sl) + 1, Len(str))

\* line 200 without the query string removed
FileNameWithQuery(url) == LastSegment(url)

\* line 200
FileName(url) == LastSegment(BeforeQuery(url))

\* str.endswith for a file extension
EndsWith(str, ext) == Len(str) >= 1 /\ str[Len(str)] = ext

\* line 201
IsSupported(name) ==
    EndsWith(Lower(name), ".stl") \/ EndsWith(Lower(name), ".3mf")

\* pydantic's HttpUrl accepts the string: it has a scheme and a host.
IsHttpUrl(str) == Len(str) >= 1 /\ str[1] = "http://h"

\* lines 15-20 and 194-197: the request a payload stands for.  A bare string
\* is the URL, the other fields take their defaults.  (supports only adds an
\* argument to the slicer command and is left out.)
ReqOf(p) ==
    IF p.kind = "str"
    THEN [file_url |-> p.file_url, material |-> PLA, quality |-> "standard",
          copies |-> 1]
    ELSE [file_url |-> p.file_url, material |-> p.material,
          quality |-> p.quality, copies |-> p.copies]

\* lines 161-165: the three profile files, by their stem
ProfilesNeeded(req) == {<<"base">>, Lower(req.material), <<req.quality>>}

\* line 221 with the sentinel itself let through
TimeFailedBelowSentinel(t) == t < -1

\* line 221
TimeFailed(t) == t < 0

\* lines 216-218 without the recomputation
NoFallback(g, e_len, mat) == g

\* lines 216-218
HardFallback(g, e_len, mat) ==
    IF g = 0 /\ e_len > 0 THEN calc_grams_from_length_mm(e_len, mat) ELSE g

\* lines 225-226 without the clamp
CopiesUnclamped(copies) == copies

\* lines 225-226: max(1, req.copies)
CopiesFactor(copies) == Max(1, copies)

\* round(x, 2) for a mass in micrograms: to the nearest 10000, ties to even
Round2(x) ==
    LET q == x \div 10000
        r == x % 10000
    IN  IF r > 5000 \/ (r = 5000 /\ q % 2 = 1) THEN (q + 1) * 10000 ELSE q * 10000

\* line 226 with the single-copy mass rounded before it is multiplied
RoundThenMultiply(g, copies) == Round2(g) * CopiesFactor(copies)

\* line 226
FilamentG(g, copies) == Round2(g * CopiesFactor(copies))

\* lines 225
PrintTimeSeconds(t, copies) == t * CopiesFactor(copies)

\* gcode.splitlines()[:60]
HeaderLines == 60

\* lines 212-234: from the G-code text to the response or the error raised
EstimateCore(doc, req) ==
    LET g0    == parse_filament_g(doc, req.material)
        t     == parse_time_seconds(doc)
        e_len == extrusion_length_mm_from_e_axis(doc)
        g     == HardFallback(g0, e_len, req.material)
        resp  == [print_time_seconds |-> PrintTimeSeconds(t, req.copies),
                  filament_g |-> FilamentG(g, req.copies)]
    IN  IF TimeFailed(t)
        THEN [status |-> 500, detail |-> "Failed to read slicer output"]
        ELSE IF g = 0
        THEN [status |-> 200,
              body |-> [print_time_seconds |-> resp.print_time_seconds,
                        filament_g |-> resp.filament_g,
                        debug_header |-> SubSeq(doc, 1, Min(HeaderLines, Len(doc))),
                        debug_e_length_mm |-> extrusion_length_mm_from_e_axis(doc)]]
        ELSE [status |-> 200, body |-> resp]

\* The handler ends: what it performed and what it answered.
Answer(p, done, doc, resp) ==
    /\ pc' = "done"
    /\ payload' = p
    /\ effects' = done
    /\ gcode' = doc
    /\ response' = resp
    /\ UNCHANGED <<material, absolute, e_pos, total, i, result, profiles>>

(***************************************************************************)
(* Spec: one request handled by estimate.  Each action is the whole        *)
(* handler along one of its paths.                                         *)
(***************************************************************************)
\* Longest G-code document the slicer writes.
MaxDocLines == 3

Urls ==
    {<<"http://h", "/", "a", ".stl">>,
     <<"http://h", "/", "a", ".STL">>,
     <<"http://h", "/", "a", ".3mf">>,
     <<"http://h", "/", "a", ".stl", "?", "x">>,
     <<"http://h", "/", "a", ".txt">>,
     <<"http://h", "/", "a", ".txt", "?", "f", ".stl">>,
     <<"http://h", "/", "a", ".stl", "/", "b">>,
     <<"http://h", "/">>}

\* Strings that are no URL.
NotUrls == {<<"a", ".stl">>, <<"a", ".txt">>}

CopiesValues == {-1, 0, 1, 3}

Qualities == {"standard", "fine"}

Payloads ==
    {[kind |-> "str", file_url |-> u] : u \in Urls \cup NotUrls}
    \cup {[kind |-> "Req", file_url |-> u, material |-> m, quality |-> q,
           copies |-> c] :
            u \in Urls, m \in Materials, q \in Qualities, c \in CopiesValues}

\* What a deployment may hold under profiles/.
ProfileSets ==
    {{<<"base">>, <<"p", "l", "a">>, <<"p", "e", "t", "g">>, <<"standard">>},
     {<<"base">>, <<"p", "l", "a">>, <<"p", "e", "t", "g">>, <<"a", "b", "s">>,
      <<"standard">>, <<"fine">>},
     {<<"p", "l", "a">>, <<"p", "e", "t", "g">>, <<"standard">>}}

EstLines ==
    {GramLine(0), GramLine(12340000), LengthLine(1000, "mm"), CmdE("G1", 10),
     TimeLine(<<Tok(1, "h"), Tok(2, "m"), Tok(3, "s")>>)}

Init ==
    /\ pc = "idle"
    /\ profiles \in ProfileSets
    /\ payload = [kind |-> "none"]
    /\ effects = <<>>
    /\ gcode = <<>>
    /\ response = [status |-> 0]
    /\ material = Unused /\ absolute = Unused /\ e_pos = Unused
    /\ total = Unused /\ i = Unused /\ result = Unused

\* lines 194-195, 238-239: the string is no URL, Req(...) raises
EstimateInvalidUrl ==
    /\ pc = "idle"
    /\ \E p \in Payloads :
        /\ p.kind = "str" /\ ~IsHttpUrl(p.file_url)
        /\ Answer(p, <<>>, <<>>, [status |-> 500, detail |-> "validation error"])

\* lines 200-202, 236-237
EstimateUnsupported ==
    /\ pc = "idle"
    /\ \E p \in Payloads :
        /\ p.kind = "str" => IsHttpUrl(p.file_url)
        /\ ~IsSupported(FileName(ReqOf(p).file_url))
        /\ Answer(p, <<>>, <<>>, [status |-> 400, detail |-> "Only STL/3MF supported"])

\* lines 207, 152-155, 238-239: the download raises
EstimateDownloadFails ==
    /\ pc = "idle"
    /\ \E p \in Payloads :
        /\ p.kind = "str" => IsHttpUrl(p.file_url)
        /\ IsSupported(FileName(ReqOf(p).file_url))
        /\ Answer(p, <<"download">>, <<>>, [status |-> 500, detail |-> "download failed"])

\* lines 208, 165-166, 238-239
EstimateMissingProfiles ==
    /\ pc = "idle"
    /\ \E p \in Payloads :
        /\ p.kind = "str" => IsHttpUrl(p.file_url)
        /\ IsSupported(FileName(ReqOf(p).file_url))
        /\ ~(ProfilesNeeded(ReqOf(p)) \subseteq profiles)
        /\ Answer(p, <<"download">>, <<>>,
                  [status |-> 500, detail |-> "Missing profile files"])

\* lines 186-188, 238-239: the slicer exits non-zero
EstimateSlicerFails ==
    /\ pc = "idle"
    /\ \E p \in Payloads :
        /\ p.kind = "str" => IsHttpUrl(p.file_url)
        /\ IsSupported(FileName(ReqOf(p).file_url))
        /\ ProfilesNeeded(ReqOf(p)) \subseteq profiles
        /\ Answer(p, <<"download", "slice">>, <<>>,
                  [status |-> 500, detail |-> "slicer error output"])

\* lines 210-234, 238-239: the slicer wrote doc; it is read and parsed
EstimateParses ==
    /\ pc = "idle"
    /\ \E p \in Payloads, doc \in SeqsUpTo(EstLines, MaxDocLines) :
        /\ p.kind = "str" => IsHttpUrl(p.file_url)
        /\ IsSupported(FileName(ReqOf(p).file_url))
        /\ ProfilesNeeded(ReqOf(p)) \subseteq profiles
        /\ Answer(p, <<"download", "slice", "parse">>, doc,
                  EstimateCore(doc, ReqOf(p)))

Next ==
    \/ EstimateInvalidUrl
    \/ EstimateUnsupported
    \/ EstimateDownloadFails
    \/ EstimateMissingProfiles
    \/ EstimateSlicerFails
    \/ EstimateParses

Spec == Init /\ [][Next]_vars

(***************************************************************************)
(* Claims about estimate (checked under Spec).                             *)
(***************************************************************************)
\* The handler got as far as reading and parsing the slicer's output.
Parsed == pc = "done" /\ effects = <<"download", "slice", "parse">>

Returned == pc = "done" /\ response.status = 200

Req == ReqOf(payload)

\* max(1, copies), as the claims word it
ClampedCopies(c) == IF c < 1 THEN 1 ELSE c

\* The single-copy mass after the secondary pass, as the claims word it.
ResolvedMass(doc, mat) ==
    IF parse_filament_g(doc, mat) = 0 /\ extrusion_length_mm_from_e_axis(doc) > 0
    THEN calc_grams_from_length_mm(extrusion_length_mm_from_e_axis(doc), mat)
    ELSE parse_filament_g(doc, mat)

TimeSummary == TimeLine(<<Tok(1, "h"), Tok(2, "m"), Tok(3, "s")>>)

\* C1: when the document holds no printing-time summary the time estimator
\* returns -1 and estimate fails the request: no response with a mass or any
\* other partial result is returned, whatever the mass estimator and the
\* integrator produced.
C1_NoTimeFails ==
    (Parsed /\ ~HasSummary(gcode)) =>
        /\ parse_time_seconds(gcode) = -1
        /\ response.status = 500
        /\ DOMAIN response = {"status", "detail"}

\* A document with a gram line and a move, and no time summary.
C1_Witness ==
    /\ Parsed
    /\ gcode = <<GramLine(12340000), CmdE("G1", 10)>>
    /\ response = [status |-> 500, detail |-> "Failed to read slicer output"]

\* C4: whenever estimate returns a result, print_time_seconds and filament_g
\* are both >= 0, for every document, material and copies value (zero and
\* negative included); the -1 sentinel never appears in a result.
C4_NonNegative ==
    Returned =>
        /\ response.body.print_time_seconds >= 0
        /\ response.body.filament_g >= 0
        /\ response.body.print_time_seconds # -1

\* A result for a request with copies = -1.
C4_Witness ==
    /\ Returned
    /\ payload.kind = "Req" /\ payload.copies = -1
    /\ response.body.print_time_seconds = 3723
    /\ response.body.filament_g = 12340000

\* C5: in every result the time is the parsed time times max(1, copies) and
\* the mass is the resolved single-copy mass times the same factor, rounded
\* to 2 decimals; copies = 3 triples both, and copies < 1 gives the result
\* of copies = 1.
C5_CopiesFactor ==
    Returned =>
        LET k  == ClampedCopies(Req.copies)
            t  == parse_time_seconds(gcode)
            g  == ResolvedMass(gcode, Req.material)
            r1 == EstimateCore(gcode, [Req EXCEPT !.copies = 1])
        IN  /\ response.body.print_time_seconds = t * k
            /\ response.body.filament_g = Round2(g * k)
            /\ Req.copies = 3 =>
                 /\ response.body.print_time_seconds = 3 * t
                 /\ response.body.filament_g = Round2(3 * g)
            /\ Req.copies < 1 => response = r1

\* Three copies of 1000 mm of PLA: 3 * 2.982448 g rounds to 8.95 g.
C5_Witness ==
    /\ Returned
    /\ payload.kind = "Req" /\ payload.copies = 3 /\ payload.material = PLA
    /\ gcode = <<LengthLine(1000, "mm"), TimeSummary>>
    /\ response.body.print_time_seconds = 11169
    /\ response.body.filament_g = 8950000

\* The name is PETG in some mix of cases.
IsPetgName(mat) ==
    /\ Len(mat) = 4
    /\ mat[1] \in {"p", "P"} /\ mat[2] \in {"e", "E"}
    /\ mat[3] \in {"t", "T"} /\ mat[4] \in {"g", "G"}

IsPlaName(mat) ==
    /\ Len(mat) = 3
    /\ mat[1] \in {"p", "P"} /\ mat[2] \in {"l", "L"} /\ mat[3] \in {"a", "A"}

\* C7: an unknown material name falls back to the PLA density rather than
\* raising an error: the conversion uses the PETG density for PETG in any
\* case and the PLA density for every other name, and an estimation whose
\* material name is unrecognised does not fail on account of that name.
C7_UnknownMaterialDoesNotFail ==
    /\ \A m \in Materials :
         Density(m) = IF IsPetgName(m) THEN DensityPETG_E2 ELSE DensityPLA_E2
    /\ (pc = "done" /\ ~IsPetgName(Req.material) /\ ~IsPlaName(Req.material)) =>
         ~(/\ response.status = 500
           /\ response.detail = "Missing profile files"
           /\ {<<"base">>, <<Req.quality>>} \subseteq profiles)

\* The file name of the claim ends in .stl or .3mf: the last character before
\* the query string is one of the two extensions, in either case.
NameEndsInStlOr3mf(url) ==
    LET q   == {k \in 1..Len(url) : url[k] = "?"}
        end == IF q = {} THEN Len(url) ELSE First(q) - 1
    IN  end >= 1 /\ url[end] \in {".stl", ".STL", ".3mf", ".3MF"}

C9_ZeroMassResolution ==
    (Parsed /\ HasSummary(gcode)) =>
        LET g0    == parse_filament_g(gcode, Req.material)
            e_len == extrusion_length_mm_from_e_axis(gcode)
            g     == ResolvedMass(gcode, Req.material)
            k     == ClampedCopies(Req.copies)
        IN  /\ response.status = 200
            /\ (g0 = 0 /\ e_len > 0) =>
                 /\ g > 0
                 /\ response.body.filament_g =
                      Round2(calc_grams_from_length_mm(e_len, Req.material) * k)
            /\ g = 0 =>
                 /\ response.body.filament_g = 0
                 /\ DOMAIN response.body =
                      {"print_time_seconds", "filament_g", "debug_header",
                       "debug_e_length_mm"}
                 /\ response.body.debug_header = SubSeq(gcode, 1, Min(60, Len(gcode)))
                 /\ response.body.debug_e_length_mm = e_len
            /\ g # 0 =>
                 DOMAIN response.body = {"print_time_seconds", "filament_g"}

\* The slicer reported 0 g and the document holds a forward move of 10 mm.
C9_Witness ==
    /\ Returned
    /\ payload.kind = "Req" /\ payload.copies = 1 /\ payload.material = PLA
    /\ gcode = <<GramLine(0), CmdE("G1", 10), TimeSummary>>
    /\ response.body = [print_time_seconds |-> 3723, filament_g |-> 30000]

=============================================================================
